---- MODULE Spec2Model ----
(***************************************************************************)
(* Call-session orchestration of the Unmute server (server/routes.ts,      *)
(* here src/unnamed/part_000): the in-memory Call Session Store, the       *)
(* telephony webhooks, the end/speak endpoints and the temporary audio     *)
(* routes.  Every handler is an async function; each await is a suspension *)
(* point, so a handler is modelled as one action per stretch of code       *)
(* between two awaits, and the handler instances in flight are the records *)
(* of reqs whose pc is not "done".                                         *)
(***************************************************************************)
EXTENDS Integers, Sequences, FiniteSets, TLC

VARIABLES
    twilioClient,   \* TRUE iff the Twilio client was constructed (credentials present)
    openai,         \* TRUE iff the OpenAI client was constructed
    activeCalls,    \* the Call Session Store: callSid -> CallData, or NoCall
    callHistory,    \* the call_history row of each callSid, or NoRow
    live,           \* the call's status on the telephony side (what calls(sid).fetch() returns)
    net,            \* telephony callbacks sent by Twilio and not yet delivered
    reqs,           \* every handler instance, by id; pc /= "done" is in flight
    emitted,        \* the events published with io.emit
    summaryCalls,   \* the summarization requests made (gpt-4o), in order
    now,            \* Date.now(), in ms
    ticks,          \* number of clock advances so far
    files,          \* the audio artifacts in /tmp: set of [name, by]
    routerStack,    \* app._router.stack: the layers, in registration order
    timers,         \* pending setTimeout cleanups: set of [name, due, route, n]
    audioLog,       \* answers given to GET /temp-audio/<name>: set of [name, at, code, n]
    faults,         \* number of adapter and database calls that have failed so far
    activeMediaStreams,  \* callSid -> the stream entry [ws, chunks], or NoStream
    conns           \* the media-stream WebSocket connections and their closures

vars == <<twilioClient, openai, activeCalls, callHistory, live, net, reqs, emitted,
          summaryCalls, now, ticks, files, routerStack, timers, audioLog, faults,
          activeMediaStreams, conns>>

----------------------------------------------------------------------------
(* Bounds of the model *)

MaxReqs == 2        \* client requests (end, speak, gather callbacks) per behaviour
MaxStarts == 1      \* start-call requests per behaviour
MaxTicks == 2       \* clock advances per behaviour
TickMs == 30500     \* length of one clock advance, ms
MaxFetch == 2       \* GET /temp-audio requests per behaviour
MaxFaults == 1      \* failing adapter or database calls per behaviour
MaxConns == 2       \* media-stream connections per behaviour
MaxMedia == 6       \* 'media' messages per behaviour

(* Program constants *)

CleanupDelay == 60000        \* setTimeout(..., 60000) of the temporary routes
StreamCleanupDelay == 30000  \* setTimeout(..., 30000) of the media-stream route
BatchChunks == 3             \* currentAudioChunks.length >= 3

CallSids == {"CA1"}
Owner == "u1"                \* the user who places the call
Other == "u2"                \* another authenticated user
NoUser == "anonymous"        \* req.session.userId absent
NoCall == [status |-> "absent"]
NoRow == [status |-> "norow"]
NoStream == [ws |-> 0, chunks |-> 0]
Null == <<"null">>            \* the value null
Undefined == <<"undefined">>  \* a field that is not set

TerminalStatuses == {"completed", "busy", "failed", "no-answer", "canceled"}
LiveActive == {"ringing", "in-progress"}

----------------------------------------------------------------------------
(* Handler instances *)

\* A fresh handler record.  kind: which route; user: req.session.userId (NoUser when
\* absent); arg: the request's payload; the remaining fields record what the
\* handler has done so far (its locals and its response); fetches counts the
\* live-status fetches that have returned to it, emits the "transcription"
\* events it has published (emitted keeps one copy of equal events), missing
\* says that the body lacks the text or the digits, error is the error field
\* of the response body of the end, mute and DTMF routes.
NewReq(kind, sid, user, arg) ==
    [kind |-> kind, sid |-> sid, user |-> user, arg |-> arg, pc |-> "new",
     text |-> <<>>, input |-> <<>>, summary |-> Null, endTime |-> -1,
     code |-> 0, twiml |-> <<>>, row |-> NoRow, ended |-> FALSE, appended |-> FALSE,
     synth |-> FALSE, updated |-> FALSE, fetches |-> 0, emits |-> 0,
     missing |-> FALSE, error |-> Undefined]

\* Handler ids.  The k-th request received from a client or on the gather callback
\* is <<"req", "", k>>; the handler of a telephony callback is named by the
\* callback, which Twilio sends once per call event.
ReqId(k) == <<"req", "", k>>
HookId(m) == <<m.kind, m.status, 0>>
ReqIds == {i \in DOMAIN reqs : i[1] = "req"}
NextReqId == ReqId(Cardinality(ReqIds) + 1)

ClientKinds == {"end", "speak", "transcribe", "recording", "media", "mute", "dtmf"}
ClientCount == Cardinality({i \in DOMAIN reqs : reqs[i].kind \in ClientKinds})
StartCount == Cardinality({i \in DOMAIN reqs : reqs[i].kind = "start"})

AddReq(i, r) == reqs' = reqs @@ (i :> r)

Event(type, sid, status, summary, text, by) ==
    [type |-> type, callSid |-> sid, status |-> status, summary |-> summary,
     text |-> text, by |-> by]

Has(sid) == sid \in CallSids /\ activeCalls[sid] /= NoCall

\* A client can name a call once the server has published or returned its callSid
\* (events go to every connected client); NoSid and UnknownSid need no knowledge.
Known(sid) == sid \notin CallSids \/ \E e \in emitted : e.callSid = sid

----------------------------------------------------------------------------
Init ==
    /\ twilioClient \in BOOLEAN
    /\ openai \in BOOLEAN
    /\ activeCalls = [s \in CallSids |-> NoCall]
    /\ callHistory = [s \in CallSids |-> NoRow]
    /\ live = [s \in CallSids |-> "none"]
    /\ net = {}
    /\ reqs = [i \in {} |-> NoCall]
    /\ emitted = {}
    /\ summaryCalls = <<>>
    /\ now = 0
    /\ ticks = 0
    /\ files = {}
    /\ routerStack = <<[kind |-> "use", name |-> [prefix |-> "/temp-audio", ts |-> 0],
                         by |-> ReqId(0), delay |-> 0, unroute |-> FALSE]>>
    /\ timers = {}
    /\ audioLog = {}
    /\ faults = 0
    /\ activeMediaStreams = [s \in CallSids |-> NoStream]
    /\ conns = <<>>

----------------------------------------------------------------------------
(* Helpers shared by the handlers *)

SetReq(i, r) == reqs' = [reqs EXCEPT ![i] = r]

\* The error a failing call of the Telephony Adapter throws, and
\* getErrorMessage(error): error.message for an Error.
TelephonyError == [message |-> <<"twilio", "error">>]
getErrorMessage(error) == error.message

\* res.status(code)...: the handler is over.
Respond(r, code, twiml) == [r EXCEPT !.pc = "done", !.code = code, !.twiml = twiml]

Emit(e) == emitted' = emitted \cup {e}

\* An awaited call to an adapter or to the database returns (ok) or throws.
Outcome(ok) == IF ok THEN faults' = faults
               ELSE faults < MaxFaults /\ faults' = faults + 1

\* callData.status = "ended"; callData.endTime = endTime
EndSession(c) == [c EXCEPT !.status = "ended", !.endTime = now]

\* Duration left in milliseconds.
DurationMs(c, endTime) == endTime - c.startTime

\* Math.floor((endTime.getTime() - callData.startTime.getTime()) / 1000)
Duration(c, endTime) == (endTime - c.startTime) \div 1000

\* NeedsSummary without the test of the transcript.
NeedsSummaryAlways(c) == openai

\* openai && callData.transcript && callData.transcript.length > 0
NeedsSummary(c) == openai /\ c.tdef /\ Len(c.transcript) > 0

\* callData.transcript.map(msg => `${msg.isUser ? "User" : "Caller"}: ${msg.text}`).join("\n")
TranscriptText(t) ==
    [k \in 1..Len(t) |-> <<IF t[k].isUser THEN "User" ELSE "Caller", t[k].text>>]

\* the object handed to db.update(callHistory).set({...}) when the update is issued
RowValues(c, endTime, summary) ==
    [status |-> "ended", endTime |-> endTime, duration |-> Duration(c, endTime),
     tdef |-> c.tdef, transcript |-> c.transcript, summary |-> summary]

\* response.choices[0].message.content of the summarization request on `input`
Summary(input) == <<"summary", input>>

\* fs.writeFileSync(`/tmp/${prefix}_${Date.now()}.mp3`) and
\* app.get(`/temp-audio/${filename}`, handler): the handler's setTimeout has the
\* given delay and, when unroute, also removes the route layer.
ArtifactName(prefix) == [prefix |-> prefix, ts |-> now]
WriteFile(name, by) == {f \in files : f.name /= name} \cup {[name |-> name, by |-> by]}
AddRoute(name, by, delay, unroute) ==
    Append(routerStack, [kind |-> "get", name |-> name, by |-> by,
                         delay |-> delay, unroute |-> unroute])

\* Push with the transcript array created anew before every push.
PushAnew(c, text, isUser, by) ==
    [c EXCEPT !.tdef = TRUE,
              !.transcript = <<[text |-> text, isUser |-> isUser, by |-> by]>>]

\* if (!callData.transcript) callData.transcript = []; callData.transcript.push(entry)
Push(c, text, isUser, by) ==
    [c EXCEPT !.tdef = TRUE,
              !.transcript = Append(c.transcript, [text |-> text, isUser |-> isUser, by |-> by])]

----------------------------------------------------------------------------
(* The clock *)

\* app._router.stack.findIndex(layer => layer.route && layer.route.path === path)
\* and splice(routeIndex, 1): the first route layer of that path is removed.
RemoveRoute(stack, name) ==
    LET hits == {k \in 1..Len(stack) : stack[k].kind = "get" /\ stack[k].name = name}
    IN IF hits = {} THEN stack
       ELSE LET k == CHOOSE x \in hits : \A y \in hits : x <= y
            IN SubSeq(stack, 1, k - 1) \o SubSeq(stack, k + 1, Len(stack))

\* The setTimeout callbacks of the set `due` have run on `stack`.
RECURSIVE RunTimers(_, _)
RunTimers(stack, due) ==
    IF due = {} THEN stack
    ELSE LET t == CHOOSE x \in due : TRUE
         IN RunTimers(IF t.route THEN RemoveRoute(stack, t.name) ELSE stack, due \ {t})

\* Time passes; the setTimeout callbacks that fall due run: each removes its route
\* layer (when it is a cleanup that does so) and unlinks its file.
Tick ==
    /\ ticks < MaxTicks
    /\ now' = now + TickMs
    /\ ticks' = ticks + 1
    /\ LET due == {t \in timers : t.due <= now'}
       IN /\ timers' = timers \ due
          /\ files' = {f \in files : f.name \notin {t.name : t \in due}}
          /\ routerStack' = RunTimers(routerStack, due)
    /\ UNCHANGED <<activeMediaStreams, conns, twilioClient, openai, activeCalls, callHistory, live, net, reqs,
                   emitted, summaryCalls, audioLog, faults>>

----------------------------------------------------------------------------
(* POST /api/call/start *)

StartCall(u, phone) ==
    /\ StartCount < MaxStarts
    /\ LET r == NewReq("start", "none", u, phone)
       IN AddReq(NextReqId,
             IF ~twilioClient THEN Respond(r, 500, <<>>)
             ELSE IF ~openai THEN Respond(r, 500, <<>>)
             ELSE IF ~phone THEN Respond(r, 400, <<>>)
             ELSE IF u = NoUser THEN Respond(r, 401, <<>>)
             ELSE [r EXCEPT !.pc = "placing"])
    /\ UNCHANGED <<activeMediaStreams, conns, twilioClient, openai, activeCalls, callHistory, live, net, emitted,
                   summaryCalls, now, ticks, files, routerStack, timers, audioLog, faults>>

\* twilioClient.calls.create(...) reaches Twilio: the call exists on the telephony
\* side from now on (the far end rings, statusCallbackEvent 'ringing') and its
\* callbacks can be sent, while the handler still awaits the answer.
TwilioAccept(i, sid) ==
    /\ i \in DOMAIN reqs /\ reqs[i].kind = "start" /\ reqs[i].pc = "placing"
    /\ sid \in CallSids /\ live[sid] = "none"
    /\ live' = [live EXCEPT ![sid] = "ringing"]
    /\ net' = net \cup {[kind |-> "status", sid |-> sid, status |-> "ringing"]}
    /\ SetReq(i, [reqs[i] EXCEPT !.pc = "placed", !.sid = sid])
    /\ UNCHANGED <<activeMediaStreams, conns, twilioClient, openai, activeCalls, callHistory, emitted,
                   summaryCalls, now, ticks, files, routerStack, timers, audioLog, faults>>

\* twilioClient.calls.create(...) throws: the catch answers 500.
StartCreateFails(i) ==
    /\ i \in DOMAIN reqs /\ reqs[i].kind = "start" /\ reqs[i].pc = "placing"
    /\ SetReq(i, Respond(reqs[i], 500, <<>>))
    /\ Outcome(FALSE)
    /\ UNCHANGED <<activeMediaStreams, conns, twilioClient, openai, activeCalls, callHistory, live, net, emitted,
                   summaryCalls, now, ticks, files, routerStack, timers, audioLog>>

\* StartResume with activeCalls.set left for after the response.
StartResumeUnstored(i) ==
    /\ i \in DOMAIN reqs /\ reqs[i].kind = "start" /\ reqs[i].pc = "placed"
    /\ SetReq(i, [reqs[i] EXCEPT !.pc = "insert",
                                 !.row = [status |-> "ringing", endTime |-> -1,
                                          duration |-> -1, tdef |-> FALSE,
                                          transcript |-> <<>>, summary |-> Null]])
    /\ UNCHANGED <<activeMediaStreams, conns, twilioClient, openai, activeCalls,
                   callHistory, live, net, emitted, summaryCalls, now, ticks, files,
                   routerStack, timers, audioLog, faults>>

\* The await of calls.create returns: the session is stored and db.insert is issued.
StartResume(i) ==
    /\ i \in DOMAIN reqs /\ reqs[i].kind = "start" /\ reqs[i].pc = "placed"
    /\ activeCalls' = [activeCalls EXCEPT ![reqs[i].sid] =
          [userId |-> reqs[i].user, status |-> "ringing", startTime |-> now,
           endTime |-> -1, muted |-> FALSE, tdef |-> FALSE, transcript |-> <<>>]]
    /\ SetReq(i, [reqs[i] EXCEPT !.pc = "insert",
                                 !.row = [status |-> "ringing", endTime |-> -1,
                                          duration |-> -1, tdef |-> FALSE,
                                          transcript |-> <<>>, summary |-> Null]])
    /\ UNCHANGED <<activeMediaStreams, conns, twilioClient, openai, callHistory, live, net, emitted,
                   summaryCalls, now, ticks, files, routerStack, timers, audioLog, faults>>

\* StartInserted without the try/catch around db.insert: its failure reaches
\* the outer catch, which answers 500.
StartInsertedUncaught(i, ok) ==
    /\ i \in DOMAIN reqs /\ reqs[i].kind = "start" /\ reqs[i].pc = "insert"
    /\ IF ok
       THEN /\ callHistory' = [callHistory EXCEPT ![reqs[i].sid] = reqs[i].row]
            /\ Emit(Event("call-status", reqs[i].sid, "ringing", Undefined, <<>>, i))
            /\ SetReq(i, Respond(reqs[i], 200, <<>>))
       ELSE /\ SetReq(i, Respond(reqs[i], 500, <<>>))
            /\ UNCHANGED <<callHistory, emitted>>
    /\ Outcome(ok)
    /\ UNCHANGED <<activeMediaStreams, conns, twilioClient, openai, activeCalls, live, net,
                   summaryCalls, now, ticks, files, routerStack, timers, audioLog>>

\* db.insert returns (a failure is logged and swallowed); "ringing" is published
\* and the request answered 200.
StartInserted(i, ok) ==
    /\ i \in DOMAIN reqs /\ reqs[i].kind = "start" /\ reqs[i].pc = "insert"
    /\ callHistory' = IF ok THEN [callHistory EXCEPT ![reqs[i].sid] = reqs[i].row]
                      ELSE callHistory
    /\ Emit(Event("call-status", reqs[i].sid, "ringing", Undefined, <<>>, i))
    /\ SetReq(i, Respond(reqs[i], 200, <<>>))
    /\ Outcome(ok)
    /\ UNCHANGED <<activeMediaStreams, conns, twilioClient, openai, activeCalls, live, net,
                   summaryCalls, now, ticks, files, routerStack, timers, audioLog>>

----------------------------------------------------------------------------
(* The telephony network *)

\* The far end answers: Twilio requests the call's instructions from the url
\* (/api/call/webhook) and sends the 'answered' status callback.
TwilioAnswer(sid) ==
    /\ live[sid] = "ringing"
    /\ live' = [live EXCEPT ![sid] = "in-progress"]
    /\ net' = net \cup {[kind |-> "webhook", sid |-> sid, status |-> "in-progress"],
                        [kind |-> "status", sid |-> sid, status |-> "in-progress"]}
    /\ UNCHANGED <<activeMediaStreams, conns, twilioClient, openai, activeCalls, callHistory, reqs, emitted,
                   summaryCalls, now, ticks, files, routerStack, timers, audioLog, faults>>

\* The call ends on the telephony side: hang-up after the answer, or busy, failed,
\* no-answer, canceled before it.
TwilioFinish(sid, cs) ==
    /\ cs \in TerminalStatuses
    /\ IF cs = "completed" THEN live[sid] = "in-progress"
                           ELSE live[sid] = "ringing"
    /\ live' = [live EXCEPT ![sid] = cs]
    /\ net' = net \cup {[kind |-> "status", sid |-> sid, status |-> cs]}
    /\ UNCHANGED <<activeMediaStreams, conns, twilioClient, openai, activeCalls, callHistory, reqs, emitted,
                   summaryCalls, now, ticks, files, routerStack, timers, audioLog, faults>>

----------------------------------------------------------------------------
(* POST /api/call/status and handleCallEnding *)

\* The status callback arrives.  For a call in the store: a terminal CallStatus
\* runs handleCallEnding up to its first await (the summarization request, or the
\* db.update when there is nothing to summarize); any other CallStatus publishes
\* the mapped status and answers 200.
StatusCallback(m) ==
    /\ m \in net /\ m.kind = "status"
    /\ net' = net \ {m}
    /\ LET i == HookId(m)
           r == NewReq("status", m.sid, NoUser, m.status)
           c == activeCalls[m.sid]
           e == EndSession(c)
       IN IF ~Has(m.sid)
          THEN /\ AddReq(i, Respond(r, 200, <<>>))
               /\ UNCHANGED <<activeCalls, emitted, summaryCalls>>
          ELSE IF m.status \in TerminalStatuses
          THEN /\ activeCalls' = [activeCalls EXCEPT ![m.sid] = e]
               /\ IF NeedsSummary(e)
                  THEN /\ summaryCalls' = Append(summaryCalls,
                              [by |-> i, input |-> TranscriptText(e.transcript)])
                       /\ AddReq(i, [r EXCEPT !.pc = "summ", !.ended = TRUE, !.endTime = now,
                                        !.input = TranscriptText(e.transcript)])
                  ELSE /\ summaryCalls' = summaryCalls
                       /\ AddReq(i, [r EXCEPT !.pc = "dbupd", !.ended = TRUE, !.endTime = now,
                                        !.row = RowValues(e, now, Null)])
               /\ UNCHANGED emitted
          ELSE /\ Emit(Event("call-status", m.sid,
                             IF m.status = "ringing" THEN "ringing" ELSE "connected",
                             Undefined, <<>>, i))
               /\ AddReq(i, Respond(r, 200, <<>>))
               /\ UNCHANGED <<activeCalls, summaryCalls>>
    /\ UNCHANGED <<activeMediaStreams, conns, twilioClient, openai, callHistory, live, now, ticks, files,
                   routerStack, timers, audioLog, faults>>

\* The summarization request of a call ending returns (ok) or throws (swallowed,
\* summary stays null); db.update is issued with the local endTime and duration,
\* the summary, and the transcript as it is now.
SummaryReturns(i, ok) ==
    /\ i \in DOMAIN reqs /\ reqs[i].pc = "summ"
    /\ LET s == IF ok THEN Summary(reqs[i].input) ELSE Null
       IN SetReq(i, [reqs[i] EXCEPT !.pc = "dbupd", !.summary = s,
                        !.row = RowValues(activeCalls[reqs[i].sid], reqs[i].endTime, s)])
    /\ Outcome(ok)
    /\ UNCHANGED <<activeMediaStreams, conns, twilioClient, openai, activeCalls, callHistory, live, net, emitted,
                   summaryCalls, now, ticks, files, routerStack, timers, audioLog>>

\* db.update returns (a failure is logged and swallowed).  handleCallEnding then
\* publishes "ended" with the summary and its caller, the status route, publishes
\* the mapped status "ended"; the end route publishes "ended" without a summary.
DbUpdateReturns(i, ok) ==
    /\ i \in DOMAIN reqs /\ reqs[i].pc = "dbupd"
    /\ LET sid == reqs[i].sid
       IN /\ callHistory' = IF ok /\ callHistory[sid] /= NoRow
                            THEN [callHistory EXCEPT ![sid] = reqs[i].row]
                            ELSE callHistory
          /\ emitted' = emitted \cup
                (IF reqs[i].kind = "status"
                 THEN {Event("call-status", sid, "ended", reqs[i].summary, <<>>, i),
                       Event("call-status", sid, "ended", Undefined, <<>>, i)}
                 ELSE {Event("call-status", sid, "ended", Undefined, <<>>, i)})
    /\ SetReq(i, Respond(reqs[i], 200, <<>>))
    /\ Outcome(ok)
    /\ UNCHANGED <<activeMediaStreams, conns, twilioClient, openai, activeCalls, live, net,
                   summaryCalls, now, ticks, files, routerStack, timers, audioLog>>

----------------------------------------------------------------------------
(* POST /api/call/webhook *)

\* Webhook that leaves the session and the event for after the synthesis.
WebhookUnmarked(m) ==
    /\ m \in net /\ m.kind = "webhook"
    /\ net' = net \ {m}
    /\ LET i == HookId(m)
           r == NewReq("webhook", m.sid, NoUser, m.status)
       IN AddReq(i, IF ~twilioClient \/ ~openai THEN Respond(r, 500, <<>>)
                    ELSE [r EXCEPT !.pc = "tts", !.synth = TRUE])
    /\ UNCHANGED <<activeMediaStreams, conns, twilioClient, openai, activeCalls, emitted,
                   callHistory, live, summaryCalls, now, ticks, files, routerStack,
                   timers, audioLog, faults>>

\* Twilio asks for the call's instructions.  The session, when in the store, is
\* set to "connected" and the event published; the greeting synthesis is issued.
Webhook(m) ==
    /\ m \in net /\ m.kind = "webhook"
    /\ net' = net \ {m}
    /\ LET i == HookId(m)
           r == NewReq("webhook", m.sid, NoUser, m.status)
       IN IF ~twilioClient \/ ~openai
          THEN /\ AddReq(i, Respond(r, 500, <<>>))
               /\ UNCHANGED <<activeCalls, emitted>>
          ELSE /\ AddReq(i, [r EXCEPT !.pc = "tts", !.synth = TRUE])
               /\ IF Has(m.sid)
                  THEN /\ activeCalls' = [activeCalls EXCEPT ![m.sid].status = "connected"]
                       /\ Emit(Event("call-status", m.sid, "connected", Undefined, <<>>, i))
                  ELSE UNCHANGED <<activeCalls, emitted>>
    /\ UNCHANGED <<activeMediaStreams, conns, twilioClient, openai, callHistory, live, summaryCalls, now, ticks,
                   files, routerStack, timers, audioLog, faults>>

\* The greeting synthesis returns: the mp3 is written, its route registered and
\* played; or it throws and the fallback instructions say a sentence and gather.
WebhookTtsReturns(i, ok) ==
    /\ i \in DOMAIN reqs /\ reqs[i].kind = "webhook" /\ reqs[i].pc = "tts"
    /\ LET name == ArtifactName("greeting")
       IN IF ok
          THEN /\ files' = WriteFile(name, i)
               /\ routerStack' = AddRoute(name, i, CleanupDelay, TRUE)
               /\ SetReq(i, Respond(reqs[i], 200, <<"play", "pause", "pause">>))
          ELSE /\ SetReq(i, Respond(reqs[i], 200, <<"say", "gather", "pause">>))
               /\ UNCHANGED <<files, routerStack>>
    /\ Outcome(ok)
    /\ UNCHANGED <<activeMediaStreams, conns, twilioClient, openai, activeCalls, callHistory, live, net, emitted,
                   summaryCalls, now, ticks, timers, audioLog>>

----------------------------------------------------------------------------
(* POST /api/call/end *)

NoSid == "none"     \* a request body without callSid
UnknownSid == "CA9" \* a callSid that no start-call request was answered with
SidInputs == CallSids \cup {NoSid, UnknownSid}

\* The end-call request arrives: 400 without callSid, 500 without the Twilio
\* client, 404 when the call is not in the store; otherwise
\* calls(callSid).update({status: "completed"}) is issued.  req.session is not read.
EndCall(u, sid) ==
    /\ ClientCount < MaxReqs
    /\ Known(sid)
    /\ LET r == NewReq("end", sid, u, TRUE)
       IN AddReq(NextReqId,
             IF sid = NoSid THEN Respond(r, 400, <<>>)
             ELSE IF ~twilioClient THEN Respond(r, 500, <<>>)
             ELSE IF ~Has(sid) THEN Respond(r, 404, <<>>)
             ELSE [r EXCEPT !.pc = "upd"])
    /\ UNCHANGED <<activeMediaStreams, conns, twilioClient, openai, activeCalls, callHistory, live, net, emitted,
                   summaryCalls, now, ticks, files, routerStack, timers, audioLog, faults>>

\* What calls(sid).update({status: "completed"}) does on the telephony side: a
\* ringing call is canceled, a call in progress completed, and the terminal status
\* callback is sent.
Terminated(st) == IF st = "ringing" THEN "canceled"
                  ELSE IF st = "in-progress" THEN "completed" ELSE st

\* EndUpdateReturns with the session set to "ended" before the update is awaited.
EndUpdateReturnsEager(i, ok) ==
    /\ i \in DOMAIN reqs /\ reqs[i].kind = "end" /\ reqs[i].pc = "upd"
    /\ LET sid == reqs[i].sid
           e == EndSession(activeCalls[sid])
       IN /\ activeCalls' = [activeCalls EXCEPT ![sid] = e]
          /\ IF ~ok
             THEN /\ SetReq(i, Respond([reqs[i] EXCEPT !.error = getErrorMessage(TelephonyError)],
                                       500, <<>>))
                  /\ UNCHANGED <<live, net, summaryCalls>>
             ELSE /\ live' = [live EXCEPT ![sid] = Terminated(live[sid])]
                  /\ net' = IF live[sid] \in LiveActive
                            THEN net \cup {[kind |-> "status", sid |-> sid,
                                            status |-> Terminated(live[sid])]}
                            ELSE net
                  /\ summaryCalls' = summaryCalls
                  /\ SetReq(i, [reqs[i] EXCEPT !.pc = "dbupd", !.ended = TRUE,
                                   !.endTime = now, !.updated = TRUE,
                                   !.row = RowValues(e, now, Null)])
    /\ Outcome(ok)
    /\ UNCHANGED <<activeMediaStreams, conns, twilioClient, openai, callHistory, emitted, now,
                   ticks, files, routerStack, timers, audioLog>>

\* The update returns.  It threw: the catch answers 500 with the message of the
\* error.  Otherwise the session is
\* set to "ended" with endTime = now, and either the summarization request or the
\* db.update is issued.
EndUpdateReturns(i, ok) ==
    /\ i \in DOMAIN reqs /\ reqs[i].kind = "end" /\ reqs[i].pc = "upd"
    /\ LET sid == reqs[i].sid
           e == EndSession(activeCalls[sid])
       IN IF ~ok
          THEN /\ SetReq(i, Respond([reqs[i] EXCEPT !.error = getErrorMessage(TelephonyError)],
                                    500, <<>>))
               /\ UNCHANGED <<activeCalls, live, net, summaryCalls>>
          ELSE /\ live' = [live EXCEPT ![sid] = Terminated(live[sid])]
               /\ net' = IF live[sid] \in LiveActive
                         THEN net \cup {[kind |-> "status", sid |-> sid,
                                         status |-> Terminated(live[sid])]}
                         ELSE net
               /\ activeCalls' = [activeCalls EXCEPT ![sid] = e]
               /\ IF NeedsSummary(e)
                  THEN /\ summaryCalls' = Append(summaryCalls,
                              [by |-> i, input |-> TranscriptText(e.transcript)])
                       /\ SetReq(i, [reqs[i] EXCEPT !.pc = "summ", !.ended = TRUE,
                                        !.endTime = now, !.updated = TRUE,
                                        !.input = TranscriptText(e.transcript)])
                  ELSE /\ summaryCalls' = summaryCalls
                       /\ SetReq(i, [reqs[i] EXCEPT !.pc = "dbupd", !.ended = TRUE,
                                        !.endTime = now, !.updated = TRUE,
                                        !.row = RowValues(e, now, Null)])
    /\ Outcome(ok)
    /\ UNCHANGED <<activeMediaStreams, conns, twilioClient, openai, callHistory, emitted, now, ticks, files,
                   routerStack, timers, audioLog>>

----------------------------------------------------------------------------
(* POST /api/call/mute and POST /api/call/dtmf *)

\* MuteCall without the test of the store: the update is issued for any callSid.
MuteCallUnchecked(sid, mute) ==
    /\ ClientCount < MaxReqs
    /\ Known(sid)
    /\ LET r == NewReq("mute", sid, NoUser, mute)
       IN AddReq(NextReqId,
             IF sid = NoSid THEN Respond(r, 400, <<>>)
             ELSE IF ~twilioClient THEN Respond(r, 500, <<>>)
             ELSE [r EXCEPT !.pc = "upd"])
    /\ UNCHANGED <<activeMediaStreams, conns, twilioClient, openai, activeCalls, callHistory,
                   live, net, emitted, summaryCalls, now, ticks, files, routerStack,
                   timers, audioLog, faults>>

\* The mute request arrives: 400 without callSid, 500 without the Twilio client,
\* 404 when the call is not in the store; otherwise
\* calls(callSid).update({muted: mute}) is issued.
MuteCall(sid, mute) ==
    /\ ClientCount < MaxReqs
    /\ Known(sid)
    /\ LET r == NewReq("mute", sid, NoUser, mute)
       IN AddReq(NextReqId,
             IF sid = NoSid THEN Respond(r, 400, <<>>)
             ELSE IF ~twilioClient THEN Respond(r, 500, <<>>)
             ELSE IF ~Has(sid) THEN Respond(r, 404, <<>>)
             ELSE [r EXCEPT !.pc = "upd"])
    /\ UNCHANGED <<activeMediaStreams, conns, twilioClient, openai, activeCalls, callHistory,
                   live, net, emitted, summaryCalls, now, ticks, files, routerStack,
                   timers, audioLog, faults>>

\* The update returns: callData.muted = mute and 200; or it threw: the catch
\* answers 500 with the message of the error.
MuteUpdateReturns(i, ok) ==
    /\ i \in DOMAIN reqs /\ reqs[i].kind = "mute" /\ reqs[i].pc = "upd"
    /\ IF ok
       THEN /\ activeCalls' = [activeCalls EXCEPT ![reqs[i].sid].muted = reqs[i].arg]
            /\ SetReq(i, Respond([reqs[i] EXCEPT !.updated = TRUE], 200, <<>>))
       ELSE /\ SetReq(i, Respond([reqs[i] EXCEPT !.error = getErrorMessage(TelephonyError)],
                                 500, <<>>))
            /\ UNCHANGED activeCalls
    /\ Outcome(ok)
    /\ UNCHANGED <<activeMediaStreams, conns, twilioClient, openai, callHistory, live, net,
                   emitted, summaryCalls, now, ticks, files, routerStack, timers, audioLog>>

\* The DTMF request arrives: 400 without callSid or digits, 500 without the
\* Twilio client, 404 when the call is not in the store; otherwise
\* calls(callSid).update({twiml: <Play digits>}) is issued.
SendDtmf(sid, digits) ==
    /\ ClientCount < MaxReqs
    /\ Known(sid)
    /\ LET r == [NewReq("dtmf", sid, NoUser, digits) EXCEPT !.missing = ~digits]
       IN AddReq(NextReqId,
             IF sid = NoSid \/ ~digits THEN Respond(r, 400, <<>>)
             ELSE IF ~twilioClient THEN Respond(r, 500, <<>>)
             ELSE IF ~Has(sid) THEN Respond(r, 404, <<>>)
             ELSE [r EXCEPT !.pc = "upd", !.twiml = <<"play digits">>])
    /\ UNCHANGED <<activeMediaStreams, conns, twilioClient, openai, activeCalls, callHistory,
                   live, net, emitted, summaryCalls, now, ticks, files, routerStack,
                   timers, audioLog, faults>>

\* The update returns (200) or threw (500 with the message of the error).
DtmfUpdateReturns(i, ok) ==
    /\ i \in DOMAIN reqs /\ reqs[i].kind = "dtmf" /\ reqs[i].pc = "upd"
    /\ SetReq(i, IF ok THEN Respond([reqs[i] EXCEPT !.updated = TRUE], 200, reqs[i].twiml)
                 ELSE Respond([reqs[i] EXCEPT !.error = getErrorMessage(TelephonyError)],
                              500, <<>>))
    /\ Outcome(ok)
    /\ UNCHANGED <<activeMediaStreams, conns, twilioClient, openai, activeCalls, callHistory,
                   live, net, emitted, summaryCalls, now, ticks, files, routerStack,
                   timers, audioLog>>

----------------------------------------------------------------------------
(* POST /api/call/transcribe: the speech-gather callback *)

\* Texts are sequences of characters.
Upper(ch) == IF ch = "h" THEN "H" ELSE IF ch = "o" THEN "O" ELSE ch

RECURSIVE TrimLeft(_), TrimRight(_)
TrimLeft(t) == IF t /= <<>> /\ Head(t) = " " THEN TrimLeft(Tail(t)) ELSE t
TrimRight(t) == IF t /= <<>> /\ t[Len(t)] = " " THEN TrimRight(SubSeq(t, 1, Len(t) - 1))
                ELSE t
Trim(t) == TrimRight(TrimLeft(t))

\* speechResult.trim(); first letter upper-cased; '.' appended unless the text
\* ends in '.', '?' or '!'
FormatSpeech(sr) ==
    LET t == Trim(sr)
        c == IF t = <<>> THEN t ELSE <<Upper(Head(t))>> \o Tail(t)
    IN IF c /= <<>> /\ c[Len(c)] \in {".", "?", "!"} THEN c ELSE Append(c, ".")

NoSpeech == <<>>                  \* SpeechResult absent or ""
NonString == <<"[object]">>       \* a SpeechResult that is not a string (no .trim)
SpeechInputs == {NoSpeech, NonString, <<"h", "i">>}

Gather == <<"gather", "pause">>   \* twiml.gather({action: .../api/call/transcribe}); twiml.pause

\* The gather callback arrives.  With a SpeechResult for a call in the store the
\* formatted text is appended and published and the synthesis issued; a
\* SpeechResult without .trim throws after the transcript array was created, and
\* the outer catch answers with a pause only.  Otherwise the gather is re-armed.
Transcribe(sid, sr) ==
    /\ ClientCount < MaxReqs
    /\ live[sid] \in {"in-progress", "completed"}
    /\ LET i == NextReqId
           r == NewReq("transcribe", sid, NoUser, sr)
           c == activeCalls[sid]
           t == FormatSpeech(sr)
       IN IF sr = NoSpeech \/ ~Has(sid)
          THEN /\ AddReq(i, Respond(r, 200, Gather))
               /\ UNCHANGED <<activeCalls, emitted>>
          ELSE IF sr = NonString
          THEN /\ activeCalls' = [activeCalls EXCEPT ![sid].tdef = TRUE]
               /\ AddReq(i, Respond(r, 200, <<"pause">>))
               /\ UNCHANGED emitted
          ELSE /\ activeCalls' = [activeCalls EXCEPT ![sid] = Push(c, t, FALSE, i)]
               /\ Emit(Event("transcription", sid, "", Undefined, t, i))
               /\ AddReq(i, IF ~openai
                     THEN Respond([r EXCEPT !.appended = TRUE, !.text = t, !.emits = 1],
                                  200, Gather)
                     ELSE [r EXCEPT !.pc = "tts", !.appended = TRUE, !.synth = TRUE,
                                    !.text = t, !.emits = 1])
    /\ UNCHANGED <<activeMediaStreams, conns, twilioClient, openai, callHistory, live, net, summaryCalls, now,
                   ticks, files, routerStack, timers, audioLog, faults>>

\* The synthesis returns: the mp3 is written, its route registered, the audio
\* event published; or it throws.  Both answers re-arm the gather.
TranscribeTtsReturns(i, ok) ==
    /\ i \in DOMAIN reqs /\ reqs[i].kind = "transcribe" /\ reqs[i].pc = "tts"
    /\ LET name == ArtifactName("speech")
       IN IF ok
          THEN /\ files' = WriteFile(name, i)
               /\ routerStack' = AddRoute(name, i, CleanupDelay, TRUE)
               /\ Emit(Event("speech-audio", reqs[i].sid, "", Undefined, reqs[i].text, i))
          ELSE UNCHANGED <<files, routerStack, emitted>>
    /\ SetReq(i, Respond(reqs[i], 200, Gather))
    /\ Outcome(ok)
    /\ UNCHANGED <<activeMediaStreams, conns, twilioClient, openai, activeCalls, callHistory, live, net,
                   summaryCalls, now, ticks, timers, audioLog>>

----------------------------------------------------------------------------
(* POST /api/call/speak *)

SpeakText == <<"o", "k">>             \* the text typed by the user
FormattedText == <<"O", "k", ".">>    \* what the formatting request (gpt-4o-mini) returns for it

\* The speak request arrives: 400 without callSid or text, 500 without a client,
\* 404 when the call is not in the store; otherwise calls(callSid).fetch() is issued.
Speak(sid, play) ==
    /\ ClientCount < MaxReqs
    /\ Known(sid)
    /\ LET r == NewReq("speak", sid, NoUser, play)
       IN AddReq(NextReqId,
             IF sid = NoSid THEN Respond(r, 400, <<>>)
             ELSE IF ~twilioClient THEN Respond(r, 500, <<>>)
             ELSE IF ~openai THEN Respond(r, 500, <<>>)
             ELSE IF ~Has(sid) THEN Respond(r, 404, <<>>)
             ELSE [r EXCEPT !.pc = "fetch1", !.text = SpeakText])
    /\ UNCHANGED <<activeMediaStreams, conns, twilioClient, openai, activeCalls, callHistory, live, net, emitted,
                   summaryCalls, now, ticks, files, routerStack, timers, audioLog, faults>>

\* The speak request arrives without text (or with ""): 400, whatever callSid.
SpeakNoText(sid) ==
    /\ ClientCount < MaxReqs
    /\ Known(sid)
    /\ AddReq(NextReqId,
              Respond([NewReq("speak", sid, NoUser, FALSE) EXCEPT !.missing = TRUE], 400, <<>>))
    /\ UNCHANGED <<activeMediaStreams, conns, twilioClient, openai, activeCalls, callHistory,
                   live, net, emitted, summaryCalls, now, ticks, files, routerStack,
                   timers, audioLog, faults>>

\* SpeakFetchReturns with the live-status check made after the message was
\* stored in the transcript.
SpeakFetchReturnsLate(i, ok) ==
    /\ i \in DOMAIN reqs /\ reqs[i].kind = "speak" /\ reqs[i].pc = "fetch1"
    /\ LET r == [reqs[i] EXCEPT !.fetches = @ + 1]
           stale == ok /\ live[r.sid] /= "in-progress"
       IN /\ SetReq(i, IF ~ok THEN Respond(reqs[i], 500, <<>>)
                       ELSE IF stale THEN Respond([r EXCEPT !.appended = TRUE], 400, <<>>)
                       ELSE [r EXCEPT !.pc = "format"])
          /\ activeCalls' = IF stale
                            THEN [activeCalls EXCEPT ![r.sid] =
                                     Push(activeCalls[r.sid], r.text, TRUE, i)]
                            ELSE activeCalls
    /\ Outcome(ok)
    /\ UNCHANGED <<activeMediaStreams, conns, twilioClient, openai, callHistory, live, net, emitted,
                   summaryCalls, now, ticks, files, routerStack, timers, audioLog>>

\* The first fetch returns the live status (or throws: 500).  Not 'in-progress':
\* 400.  Otherwise the formatting request is issued.
SpeakFetchReturns(i, ok) ==
    /\ i \in DOMAIN reqs /\ reqs[i].kind = "speak" /\ reqs[i].pc = "fetch1"
    /\ LET r == [reqs[i] EXCEPT !.fetches = @ + 1]
       IN SetReq(i, IF ~ok THEN Respond(reqs[i], 500, <<>>)
                    ELSE IF live[r.sid] /= "in-progress" THEN Respond(r, 400, <<>>)
                    ELSE [r EXCEPT !.pc = "format"])
    /\ Outcome(ok)
    /\ UNCHANGED <<activeMediaStreams, conns, twilioClient, openai, activeCalls, callHistory, live, net, emitted,
                   summaryCalls, now, ticks, files, routerStack, timers, audioLog>>

\* The formatting request returns a text (ok), or an empty text or throws (~ok: the
\* original text is kept).  The entry is appended and the synthesis issued.
SpeakFormatReturns(i, ok) ==
    /\ i \in DOMAIN reqs /\ reqs[i].kind = "speak" /\ reqs[i].pc = "format"
    /\ LET sid == reqs[i].sid
           t == IF ok THEN FormattedText ELSE reqs[i].text
       IN /\ activeCalls' = [activeCalls EXCEPT ![sid] = Push(activeCalls[sid], t, TRUE, i)]
          /\ SetReq(i, [reqs[i] EXCEPT !.pc = "tts", !.text = t, !.appended = TRUE,
                                       !.synth = TRUE])
    /\ Outcome(ok)
    /\ UNCHANGED <<activeMediaStreams, conns, twilioClient, openai, callHistory, live, net, emitted,
                   summaryCalls, now, ticks, files, routerStack, timers, audioLog>>

\* The synthesis returns (or throws: 500): the mp3 is written, its route
\* registered, the audio event published and the second fetch issued.
SpeakTtsReturns(i, ok) ==
    /\ i \in DOMAIN reqs /\ reqs[i].kind = "speak" /\ reqs[i].pc = "tts"
    /\ LET name == ArtifactName("speech")
       IN IF ok
          THEN /\ files' = WriteFile(name, i)
               /\ routerStack' = AddRoute(name, i, CleanupDelay, TRUE)
               /\ Emit(Event("speech-audio", reqs[i].sid, "", Undefined, reqs[i].text, i))
               /\ SetReq(i, [reqs[i] EXCEPT !.pc = "fetch2"])
          ELSE /\ SetReq(i, Respond(reqs[i], 500, <<>>))
               /\ UNCHANGED <<files, routerStack, emitted>>
    /\ Outcome(ok)
    /\ UNCHANGED <<activeMediaStreams, conns, twilioClient, openai, activeCalls, callHistory, live, net,
                   summaryCalls, now, ticks, timers, audioLog>>

\* The instructions of the update: play only with playOnCallOnly, then gather, pause.
SpeakTwiml(play) == IF play THEN <<"play">> \o Gather ELSE Gather

\* The second fetch returns (or throws: 500).  Not 'in-progress': 400.  Otherwise
\* calls(callSid).update({twiml}) is issued.
SpeakVerifyReturns(i, ok) ==
    /\ i \in DOMAIN reqs /\ reqs[i].kind = "speak" /\ reqs[i].pc = "fetch2"
    /\ LET r == [reqs[i] EXCEPT !.fetches = @ + 1]
       IN SetReq(i, IF ~ok THEN Respond(reqs[i], 500, <<>>)
                    ELSE IF live[r.sid] /= "in-progress" THEN Respond(r, 400, <<>>)
                    ELSE [r EXCEPT !.pc = "upd", !.twiml = SpeakTwiml(r.arg)])
    /\ Outcome(ok)
    /\ UNCHANGED <<activeMediaStreams, conns, twilioClient, openai, activeCalls, callHistory, live, net, emitted,
                   summaryCalls, now, ticks, files, routerStack, timers, audioLog>>

\* The update returns: 200, the call has the new instructions; or it throws: 500.
SpeakUpdateReturns(i, ok) ==
    /\ i \in DOMAIN reqs /\ reqs[i].kind = "speak" /\ reqs[i].pc = "upd"
    /\ SetReq(i, IF ok THEN Respond([reqs[i] EXCEPT !.updated = TRUE], 200, reqs[i].twiml)
                 ELSE Respond(reqs[i], 500, <<>>))
    /\ Outcome(ok)
    /\ UNCHANGED <<activeMediaStreams, conns, twilioClient, openai, activeCalls, callHistory, live, net, emitted,
                   summaryCalls, now, ticks, files, routerStack, timers, audioLog>>

----------------------------------------------------------------------------
(* POST /api/call/recording *)

Record == <<"record", "pause">>   \* twiml.record({action: .../api/call/recording}); twiml.pause

RawText == <<"n", "o">>           \* a text recognized by whisper-1
NoText == <<" ">>                 \* a recognition result that trims to ""
AsrTexts == {RawText, NoText}

\* The recording callback arrives.  For a call in the store the proxied URL is
\* published and, with OpenAI configured, the download of the recording issued.
Recording(sid) ==
    /\ ClientCount < MaxReqs
    /\ live[sid] \in {"in-progress", "completed"}
    /\ LET i == NextReqId
           r == NewReq("recording", sid, NoUser, TRUE)
       IN IF ~Has(sid)
          THEN /\ AddReq(i, Respond(r, 200, <<"pause">>))
               /\ UNCHANGED emitted
          ELSE /\ Emit(Event("call-audio", sid, "", Undefined, <<>>, i))
               /\ AddReq(i, IF openai THEN [r EXCEPT !.pc = "fetch"]
                                      ELSE Respond(r, 200, Record))
    /\ UNCHANGED <<activeMediaStreams, conns, twilioClient, openai, activeCalls,
                   callHistory, live, net, summaryCalls, now, ticks, files,
                   routerStack, timers, audioLog, faults>>

\* The download returns: the audio is written to /tmp and the recognition request
\* issued; or it fails (caught): the next segment is recorded.
RecordingFetched(i, ok) ==
    /\ i \in DOMAIN reqs /\ reqs[i].kind = "recording" /\ reqs[i].pc = "fetch"
    /\ IF ok
       THEN /\ files' = WriteFile(ArtifactName("call"), i)
            /\ SetReq(i, [reqs[i] EXCEPT !.pc = "asr"])
       ELSE /\ SetReq(i, Respond(reqs[i], 200, Record))
            /\ UNCHANGED files
    /\ Outcome(ok)
    /\ UNCHANGED <<activeMediaStreams, conns, twilioClient, openai, activeCalls,
                   callHistory, live, net, emitted, summaryCalls, now, ticks,
                   routerStack, timers, audioLog>>

\* The recognition request returns `text` (the temp file is unlinked; a text that
\* does not trim to "" is appended and published) or throws (caught).
RecordingAsrReturns(i, ok, text) ==
    /\ i \in DOMAIN reqs /\ reqs[i].kind = "recording" /\ reqs[i].pc = "asr"
    /\ LET sid == reqs[i].sid
           t == Trim(text)
       IN IF ok /\ t /= <<>> /\ Has(sid)
          THEN /\ activeCalls' = [activeCalls EXCEPT ![sid] =
                                     Push(activeCalls[sid], t, FALSE, i)]
               /\ Emit(Event("transcription", sid, "", Undefined, t, i))
               /\ SetReq(i, Respond([reqs[i] EXCEPT !.appended = TRUE, !.text = t,
                                                    !.emits = @ + 1], 200, Record))
          ELSE /\ SetReq(i, Respond(reqs[i], 200, Record))
               /\ UNCHANGED <<activeCalls, emitted>>
    /\ files' = IF ok THEN {f \in files : ~(f.by = i /\ f.name.prefix = "call")}
                ELSE files
    /\ Outcome(ok)
    /\ UNCHANGED <<activeMediaStreams, conns, twilioClient, openai, callHistory,
                   live, net, summaryCalls, now, ticks, routerStack, timers, audioLog>>

----------------------------------------------------------------------------
(* WebSocket /api/media-stream *)

\* The closure of one connection: callSid ("none" until 'start'), the length of
\* currentAudioChunks, the number of 'media' messages received (fullCallRecording
\* has one chunk per message), whether the socket is open, and how far the
\* connection's protocol has got: "new", "started", "saving" (the 'stop' handler
\* awaits db.update), "stopped".
NewConn == [callSid |-> "none", chunks |-> 0, seen |-> 0, open |-> TRUE, state |-> "new"]

FormattedStream == <<"N", "o", ".">>   \* what the formatting request returns for RawText

\* The number of 'media' messages received so far, on the connections from c on.
RECURSIVE MediaSeen(_)
MediaSeen(c) == IF c > Len(conns) THEN 0 ELSE conns[c].seen + MediaSeen(c + 1)

\* wss.on('connection')
StreamConnect ==
    /\ Len(conns) < MaxConns
    /\ conns' = Append(conns, NewConn)
    /\ UNCHANGED <<twilioClient, openai, activeCalls, callHistory, live, net, reqs,
                   emitted, summaryCalls, now, ticks, files, routerStack, timers,
                   audioLog, faults, activeMediaStreams>>

\* msg.event === 'start': the entry of the call is (re)placed.
StreamStart(c, sid) ==
    /\ c \in DOMAIN conns /\ conns[c].open /\ conns[c].state = "new"
    /\ live[sid] = "in-progress"
    /\ conns' = [conns EXCEPT ![c].callSid = sid, ![c].state = "started"]
    /\ activeMediaStreams' = [activeMediaStreams EXCEPT ![sid] = [ws |-> c, chunks |-> 0]]
    /\ Emit(Event("call-streaming-available", sid, "true", Undefined, <<>>, ReqId(0)))
    /\ UNCHANGED <<twilioClient, openai, activeCalls, callHistory, live, net, reqs,
                   summaryCalls, now, ticks, files, routerStack, timers, audioLog, faults>>

\* msg.event === 'media': the chunk is accumulated; with BatchChunks chunks and an
\* entry for the call, the batch is added to the entry, currentAudioChunks is
\* reset and, with OpenAI configured, the batch is written as a wav file and its
\* recognition issued.  (Date.now() names the file: batches are at least
\* BatchChunks messages apart.)
StreamMedia(c) ==
    /\ c \in DOMAIN conns /\ conns[c].open /\ conns[c].state = "started"
    /\ MediaSeen(1) < MaxMedia
    /\ LET sid == conns[c].callSid
           n == conns[c].chunks + 1
           batch == n >= BatchChunks /\ activeMediaStreams[sid] /= NoStream
           i == NextReqId
       IN /\ batch /\ openai => ClientCount < MaxReqs
          /\ conns' = [conns EXCEPT ![c].seen = @ + 1,
                                    ![c].chunks = IF batch THEN 0 ELSE n]
          /\ activeMediaStreams' =
                IF batch THEN [activeMediaStreams EXCEPT ![sid].chunks = @ + n]
                ELSE activeMediaStreams
          /\ IF batch /\ openai
             THEN /\ AddReq(i, [NewReq("media", sid, NoUser, c) EXCEPT !.pc = "asr"])
                  /\ files' = WriteFile(ArtifactName("stream"), i)
             ELSE UNCHANGED <<reqs, files>>
    /\ UNCHANGED <<twilioClient, openai, activeCalls, callHistory, live, net, emitted,
                   summaryCalls, now, ticks, routerStack, timers, audioLog, faults>>

\* The recognition of a batch returns `text` or throws (caught, nothing is
\* published).  A text that does not trim to "" is appended raw to the session's
\* transcript and the formatting request issued; without a session the raw text
\* is published.
MediaAsrReturns(i, ok, text) ==
    /\ i \in DOMAIN reqs /\ reqs[i].kind = "media" /\ reqs[i].pc = "asr"
    /\ LET sid == reqs[i].sid
           r == [reqs[i] EXCEPT !.text = text]
       IN IF ~ok \/ Trim(text) = <<>>
          THEN /\ SetReq(i, [reqs[i] EXCEPT !.pc = "done"])
               /\ UNCHANGED <<activeCalls, emitted>>
          ELSE IF ~Has(sid)
          THEN /\ SetReq(i, [r EXCEPT !.pc = "done", !.emits = @ + 1])
               /\ Emit(Event("transcription", sid, "", Undefined, text, i))
               /\ UNCHANGED activeCalls
          ELSE /\ activeCalls' = [activeCalls EXCEPT ![sid] =
                                     Push(activeCalls[sid], text, FALSE, i)]
               /\ SetReq(i, [r EXCEPT !.pc = "format", !.appended = TRUE])
               /\ UNCHANGED emitted
    /\ files' = IF ok THEN {f \in files : ~(f.by = i /\ f.name.prefix = "stream")}
                ELSE files
    /\ Outcome(ok)
    /\ UNCHANGED <<activeMediaStreams, conns, twilioClient, openai, callHistory,
                   live, net, summaryCalls, now, ticks, routerStack, timers, audioLog>>

\* MediaFormatReturns with a catch that only logs the formatting error.
MediaFormatReturnsSilent(i, ok) ==
    /\ i \in DOMAIN reqs /\ reqs[i].kind = "media" /\ reqs[i].pc = "format"
    /\ IF ok
       THEN /\ Emit(Event("transcription", reqs[i].sid, "", Undefined, FormattedStream, i))
            /\ SetReq(i, [reqs[i] EXCEPT !.pc = "tts", !.synth = TRUE,
                                         !.input = FormattedStream, !.emits = @ + 1])
       ELSE /\ SetReq(i, [reqs[i] EXCEPT !.pc = "done"])
            /\ UNCHANGED emitted
    /\ Outcome(ok)
    /\ UNCHANGED <<activeMediaStreams, conns, twilioClient, openai, activeCalls,
                   callHistory, live, net, summaryCalls, now, ticks, files,
                   routerStack, timers, audioLog>>

\* The formatting request returns: the formatted text is published and its
\* synthesis issued (lastSelectedVoice is set when the connection is made); or
\* it throws: the raw text is published.
MediaFormatReturns(i, ok) ==
    /\ i \in DOMAIN reqs /\ reqs[i].kind = "media" /\ reqs[i].pc = "format"
    /\ IF ok
       THEN /\ Emit(Event("transcription", reqs[i].sid, "", Undefined, FormattedStream, i))
            /\ SetReq(i, [reqs[i] EXCEPT !.pc = "tts", !.synth = TRUE,
                                         !.input = FormattedStream, !.emits = @ + 1])
       ELSE /\ Emit(Event("transcription", reqs[i].sid, "", Undefined, reqs[i].text, i))
            /\ SetReq(i, [reqs[i] EXCEPT !.pc = "done", !.emits = @ + 1])
    /\ Outcome(ok)
    /\ UNCHANGED <<activeMediaStreams, conns, twilioClient, openai, activeCalls,
                   callHistory, live, net, summaryCalls, now, ticks, files,
                   routerStack, timers, audioLog>>

\* The synthesis returns: the mp3 is written, its route (30 s, file only)
\* registered and the audio event published; or it throws: the formatted text is
\* published again.
MediaTtsReturns(i, ok) ==
    /\ i \in DOMAIN reqs /\ reqs[i].kind = "media" /\ reqs[i].pc = "tts"
    /\ LET name == ArtifactName("speech")
       IN IF ok
          THEN /\ files' = WriteFile(name, i)
               /\ routerStack' = AddRoute(name, i, StreamCleanupDelay, FALSE)
               /\ Emit(Event("speech-audio", reqs[i].sid, "", Undefined, reqs[i].input, i))
               /\ SetReq(i, [reqs[i] EXCEPT !.pc = "done"])
          ELSE /\ Emit(Event("transcription", reqs[i].sid, "", Undefined, reqs[i].input, i))
               /\ SetReq(i, [reqs[i] EXCEPT !.pc = "done", !.emits = @ + 1])
               /\ UNCHANGED <<files, routerStack>>
    /\ Outcome(ok)
    /\ UNCHANGED <<activeMediaStreams, conns, twilioClient, openai, activeCalls,
                   callHistory, live, net, summaryCalls, now, ticks, timers, audioLog>>

\* activeMediaStreams.delete(callSid)
DeleteStream(sid) == [activeMediaStreams EXCEPT ![sid] = NoStream]

\* msg.event === 'stop'.  With audio received the full recording is written and
\* its route registered and, for a call in the store, db.update awaited before
\* the clean-up; otherwise the entry is deleted at once.
StreamStop(c) ==
    /\ c \in DOMAIN conns /\ conns[c].open /\ conns[c].state = "started"
    /\ LET sid == conns[c].callSid
           name == ArtifactName("full_call")
       IN /\ IF conns[c].seen > 0
             THEN /\ files' = WriteFile(name, ReqId(0))
                  /\ routerStack' = Append(routerStack,
                        [kind |-> "recording", name |-> name, by |-> ReqId(0),
                         delay |-> 0, unroute |-> FALSE])
             ELSE UNCHANGED <<files, routerStack>>
          /\ IF conns[c].seen > 0 /\ Has(sid)
             THEN /\ conns' = [conns EXCEPT ![c].state = "saving"]
                  /\ UNCHANGED <<activeMediaStreams, emitted>>
             ELSE /\ conns' = [conns EXCEPT ![c].state = "stopped"]
                  /\ activeMediaStreams' = DeleteStream(sid)
                  /\ Emit(Event("call-streaming-available", sid, "false",
                                Undefined, <<>>, ReqId(0)))
    /\ UNCHANGED <<twilioClient, openai, activeCalls, callHistory, live, net, reqs,
                   summaryCalls, now, ticks, timers, audioLog, faults>>

\* The db.update of the 'stop' handler returns (a failure is caught): the entry
\* of the call is deleted and the event published.
StreamStopSaved(c, ok) ==
    /\ c \in DOMAIN conns /\ conns[c].state = "saving"
    /\ conns' = [conns EXCEPT ![c].state = "stopped"]
    /\ activeMediaStreams' = DeleteStream(conns[c].callSid)
    /\ Emit(Event("call-streaming-available", conns[c].callSid, "false",
                  Undefined, <<>>, ReqId(0)))
    /\ Outcome(ok)
    /\ UNCHANGED <<twilioClient, openai, activeCalls, callHistory, live, net, reqs,
                   summaryCalls, now, ticks, files, routerStack, timers, audioLog>>

\* ws.on('close')
StreamClose(c) ==
    /\ c \in DOMAIN conns /\ conns[c].open
    /\ conns' = [conns EXCEPT ![c].open = FALSE]
    /\ activeMediaStreams' = IF conns[c].callSid /= "none"
                             THEN DeleteStream(conns[c].callSid)
                             ELSE activeMediaStreams
    /\ UNCHANGED <<twilioClient, openai, activeCalls, callHistory, live, net, reqs,
                   emitted, summaryCalls, now, ticks, files, routerStack, timers,
                   audioLog, faults>>

----------------------------------------------------------------------------
(* GET /temp-audio/<filename> *)

FileExists(name) == \E f \in files : f.name = name

\* The layers of the router that match GET /temp-audio/<name>: the middleware
\* mounted on /temp-audio matches every such path, a route layer its own path.
Matching(name) ==
    {k \in 1..Len(routerStack) :
        routerStack[k].kind = "use" \/ routerStack[k].name = name}

\* A client or the telephony network requests a published audio URL.  Express
\* hands the request to the first matching layer.  The middleware answers 404
\* when the file is missing and sends it otherwise, and never calls next(); a
\* route layer sends the file and schedules its cleanup.
GetTempAudio(name) ==
    /\ Cardinality(audioLog) < MaxFetch
    /\ LET n == Cardinality(audioLog) + 1
           hits == Matching(name)
           k == CHOOSE x \in hits : \A y \in hits : x <= y
           code == IF hits /= {} /\ FileExists(name) THEN 200 ELSE 404
       IN /\ audioLog' = audioLog \cup {[name |-> name, at |-> now, code |-> code, n |-> n]}
          /\ timers' = IF hits /= {} /\ routerStack[k].kind = "get"
                       THEN timers \cup {[name |-> name, due |-> now + routerStack[k].delay,
                                          route |-> routerStack[k].unroute, n |-> n]}
                       ELSE timers
    /\ UNCHANGED <<activeMediaStreams, conns, twilioClient, openai, activeCalls, callHistory, live, net, reqs,
                   emitted, summaryCalls, now, ticks, files, routerStack, faults>>

\* The audio URLs handed out so far: one per registered route.
Published ==
    {routerStack[k].name : k \in {x \in 1..Len(routerStack) : routerStack[x].kind = "get"}}

----------------------------------------------------------------------------
(* Specifications *)

\* Placing a call and the telephony network.
CallSetup ==
    \/ \E u \in {NoUser, Owner}, phone \in BOOLEAN : StartCall(u, phone)
    \/ \E i \in DOMAIN reqs, sid \in CallSids : TwilioAccept(i, sid)
    \/ \E i \in DOMAIN reqs : StartCreateFails(i)
    \/ \E i \in DOMAIN reqs : StartResume(i)
    \/ \E i \in DOMAIN reqs, ok \in BOOLEAN : StartInserted(i, ok)
    \/ \E sid \in CallSids : TwilioAnswer(sid)
    \/ \E sid \in CallSids, cs \in TerminalStatuses : TwilioFinish(sid, cs)

\* The terminal status callback and the rest of a call ending.
CallEnding ==
    \/ \E m \in {x \in net : x.status \in TerminalStatuses} : StatusCallback(m)
    \/ \E i \in DOMAIN reqs, ok \in BOOLEAN : SummaryReturns(i, ok)
    \/ \E i \in DOMAIN reqs, ok \in BOOLEAN : DbUpdateReturns(i, ok)

\* The call's life cycle: placement, the initial webhook, the gather callback,
\* the end-call request and the terminal status callback.
Next ==
    \/ CallSetup
    \/ CallEnding
    \/ \E m \in net : Webhook(m)
    \/ \E i \in DOMAIN reqs, ok \in BOOLEAN : WebhookTtsReturns(i, ok)
    \/ \E u \in {NoUser, Owner, Other}, sid \in CallSids : EndCall(u, sid)
    \/ \E i \in DOMAIN reqs, ok \in BOOLEAN : EndUpdateReturns(i, ok)
    \/ \E sid \in CallSids, sr \in SpeechInputs : Transcribe(sid, sr)
    \/ \E i \in DOMAIN reqs, ok \in BOOLEAN : TranscribeTtsReturns(i, ok)

Spec == Init /\ [][Next]_vars

\* Speak requests against a call that is placed, answered and ended by the
\* telephony network.
NextSpeak ==
    \/ CallSetup
    \/ CallEnding
    \/ \E sid \in CallSids, play \in BOOLEAN : Speak(sid, play)
    \/ \E i \in DOMAIN reqs, ok \in BOOLEAN : SpeakFetchReturns(i, ok)
    \/ \E i \in DOMAIN reqs, ok \in BOOLEAN : SpeakFormatReturns(i, ok)
    \/ \E i \in DOMAIN reqs, ok \in BOOLEAN : SpeakTtsReturns(i, ok)
    \/ \E i \in DOMAIN reqs, ok \in BOOLEAN : SpeakVerifyReturns(i, ok)
    \/ \E i \in DOMAIN reqs, ok \in BOOLEAN : SpeakUpdateReturns(i, ok)

SpecSpeak == Init /\ [][NextSpeak]_vars

\* The temporary audio routes: the greeting of the initial webhook is
\* synthesized, published and requested while time passes.
NextAudio ==
    \/ CallSetup
    \/ \E m \in net : Webhook(m)
    \/ \E i \in DOMAIN reqs, ok \in BOOLEAN : WebhookTtsReturns(i, ok)
    \/ \E name \in Published : GetTempAudio(name)
    \/ Tick

SpecAudio == Init /\ [][NextAudio]_vars

\* The media stream of a call: connections, their messages and the batches'
\* recognition, formatting and synthesis.
NextStream ==
    \/ CallSetup
    \/ StreamConnect
    \/ \E c \in DOMAIN conns, sid \in CallSids : StreamStart(c, sid)
    \/ \E c \in DOMAIN conns : StreamMedia(c)
    \/ \E i \in DOMAIN reqs, ok \in BOOLEAN, text \in AsrTexts : MediaAsrReturns(i, ok, text)
    \/ \E i \in DOMAIN reqs, ok \in BOOLEAN : MediaFormatReturns(i, ok)
    \/ \E i \in DOMAIN reqs, ok \in BOOLEAN : MediaTtsReturns(i, ok)
    \/ \E c \in DOMAIN conns : StreamStop(c)
    \/ \E c \in DOMAIN conns, ok \in BOOLEAN : StreamStopSaved(c, ok)
    \/ \E c \in DOMAIN conns : StreamClose(c)

SpecStream == Init /\ [][NextStream]_vars

\* Every handler that touches a session's transcript: the speak request, the
\* gather and recording callbacks, the call ending, and one media stream
\* delivering one batch.
NextTranscript ==
    \/ CallSetup
    \/ CallEnding
    \/ \E sid \in CallSids, sr \in SpeechInputs : Transcribe(sid, sr)
    \/ \E i \in DOMAIN reqs, ok \in BOOLEAN : TranscribeTtsReturns(i, ok)
    \/ \E sid \in CallSids : Speak(sid, TRUE)
    \/ \E i \in DOMAIN reqs, ok \in BOOLEAN : SpeakFetchReturns(i, ok)
    \/ \E i \in DOMAIN reqs, ok \in BOOLEAN : SpeakFormatReturns(i, ok)
    \/ \E i \in DOMAIN reqs, ok \in BOOLEAN : SpeakTtsReturns(i, ok)
    \/ \E i \in DOMAIN reqs, ok \in BOOLEAN : SpeakVerifyReturns(i, ok)
    \/ \E i \in DOMAIN reqs, ok \in BOOLEAN : SpeakUpdateReturns(i, ok)
    \/ \E sid \in CallSids : Recording(sid)
    \/ \E i \in DOMAIN reqs, ok \in BOOLEAN : RecordingFetched(i, ok)
    \/ \E i \in DOMAIN reqs, ok \in BOOLEAN, text \in AsrTexts : RecordingAsrReturns(i, ok, text)
    \/ conns = <<>> /\ StreamConnect
    \/ \E c \in DOMAIN conns, sid \in CallSids : StreamStart(c, sid)
    \/ \E c \in DOMAIN conns : MediaSeen(1) < BatchChunks /\ StreamMedia(c)
    \/ \E i \in DOMAIN reqs, ok \in BOOLEAN, text \in AsrTexts : MediaAsrReturns(i, ok, text)
    \/ \E i \in DOMAIN reqs, ok \in BOOLEAN : MediaFormatReturns(i, ok)
    \/ \E i \in DOMAIN reqs, ok \in BOOLEAN : MediaTtsReturns(i, ok)

SpecTranscript == Init /\ [][NextTranscript]_vars

----------------------------------------------------------------------------
(* Properties of the call's life cycle, checked under Spec *)

Rank(st) == IF st = "ringing" THEN 1
            ELSE IF st = "connected" THEN 2
            ELSE IF st = "ended" THEN 3 ELSE 0

\* C1: the stored status of a session only moves forward along
\* ringing -> connected -> ended: no step takes it from "ended" back to
\* "connected" or "ringing", nor from "connected" back to "ringing".
C1_StatusMovesForward ==
    [][\A s \in CallSids :
          Has(s) => Rank(activeCalls'[s].status) >= Rank(activeCalls[s].status)]_vars

\* The handlers that have written the session's endTime.
EndTimeWrites(s) == {i \in DOMAIN reqs : reqs[i].sid = s /\ reqs[i].ended}

\* C2: a session's endTime is written at most once, whatever end-call requests
\* and terminal status callbacks arrive, and it is never set while the status
\* is not "ended".
C2_EndTimeWrittenOnce ==
    \A s \in CallSids :
        Has(s) => /\ Cardinality(EndTimeWrites(s)) <= 1
                  /\ activeCalls[s].endTime /= -1 => activeCalls[s].status = "ended"

\* The summarization requests made for the call summary of session s.
SummaryCallsFor(s) == {k \in 1..Len(summaryCalls) : reqs[summaryCalls[k].by].sid = s}

\* C3: over the whole life of a call the summarization adapter is invoked for
\* the call summary at most once (exactly once when the transcript is not empty
\* at the end), and its input is the transcript entries, in transcript order,
\* each tagged "User" when isUser and "Caller" otherwise.
C3_SummarizedOnce ==
    \A s \in CallSids :
        Has(s) =>
            /\ Cardinality(SummaryCallsFor(s)) <= 1
            /\ \A k \in SummaryCallsFor(s) :
                  LET input == summaryCalls[k].input
                      t == activeCalls[s].transcript
                  IN /\ Len(input) > 0 /\ Len(input) <= Len(t)
                     /\ \A j \in 1..Len(input) :
                           /\ input[j][1] = (IF t[j].isUser THEN "User" ELSE "Caller")
                           /\ input[j][2] = t[j].text

\* The transcription and speech-audio events published for session s.
ResultsOf(s, events) ==
    {e \in events : e.callSid = s /\ e.type \in {"transcription", "speech-audio"}}

\* C6: once a session is "ended", no transcript entry is appended to it and no
\* transcription or speech-audio event is published for it: the result of a
\* request that was in flight is discarded.
C6_NothingAfterEnded ==
    [][\A s \in CallSids :
          (Has(s) /\ activeCalls[s].status = "ended") =>
              /\ activeCalls'[s].transcript = activeCalls[s].transcript
              /\ ResultsOf(s, emitted') = ResultsOf(s, emitted)]_vars

\* C8: every response of the gather callback, the error path included, contains
\* a gather directive (whose action is the gather callback itself).
C8_GatherAlwaysRearmed ==
    \A i \in DOMAIN reqs :
        (reqs[i].kind = "transcribe" /\ reqs[i].pc = "done") =>
            \E k \in 1..Len(reqs[i].twiml) : reqs[i].twiml[k] = "gather"

\* C9: an end-call request terminates the telephony call and moves the session
\* to "ended" only when it comes from the authenticated user whose id is the
\* session's userId.
C9_OnlyOwnerEnds ==
    \A i \in DOMAIN reqs :
        (reqs[i].kind = "end" /\ (reqs[i].updated \/ reqs[i].ended)) =>
            /\ reqs[i].user /= NoUser
            /\ reqs[i].user = activeCalls[reqs[i].sid].userId

\* C10: every handler that moved a session to "ended", status callback or
\* end-call request, has published when it is over a call-status event "ended"
\* carrying the summary it generated (no summary only when none was generated).
C10_EndedCarriesSummary ==
    \A i \in DOMAIN reqs :
        (reqs[i].ended /\ reqs[i].pc = "done") =>
            \E e \in emitted :
                /\ e.type = "call-status" /\ e.callSid = reqs[i].sid
                /\ e.status = "ended" /\ e.by = i
                /\ \/ e.summary = reqs[i].summary
                   \/ reqs[i].summary = Null /\ e.summary = Undefined

----------------------------------------------------------------------------
(* Properties of the speak requests, checked under SpecSpeak *)

\* C4: the transcript entries of two speak requests are in the order in which
\* the requests were submitted, whichever formatting request returns first.
C4_SpeakEntriesInSubmissionOrder ==
    \A s \in CallSids :
        Has(s) =>
            LET t == activeCalls[s].transcript
            IN \A p, q \in 1..Len(t) :
                  (p < q /\ t[p].isUser /\ t[q].isUser) => t[p].by[3] < t[q].by[3]

\* A speak request answered 400 because a fetched live status was not
\* 'in-progress' (a 400 for a missing callSid or text is given before any fetch).
Rejected(i) ==
    /\ reqs[i].kind = "speak" /\ reqs[i].pc = "done"
    /\ reqs[i].code = 400 /\ reqs[i].fetches >= 1

\* The transcript entries appended by handler i.
EntriesBy(i) ==
    LET t == activeCalls[reqs[i].sid].transcript
    IN {k \in 1..Len(t) : t[k].by = i}

\* C5 as stated: a speak request rejected because the live status is not
\* 'in-progress', at the first check or at the re-check, has left the transcript
\* unchanged, made no synthesis call and not updated the call's instructions.
C5_RejectedLeavesNoTrace ==
    \A i \in DOMAIN reqs :
        Rejected(i) => /\ EntriesBy(i) = {}
                       /\ ~reqs[i].appended /\ ~reqs[i].synth /\ ~reqs[i].updated

\* C5 amended: a speak request rejected because the live status is not
\* 'in-progress' has not updated the call's instructions; when it was rejected
\* at the first check it has also left the transcript unchanged and made no
\* synthesis call.
C5_RejectedBeforeActing ==
    \A i \in DOMAIN reqs :
        Rejected(i) =>
            /\ ~reqs[i].updated
            /\ reqs[i].fetches = 1 =>
                  /\ EntriesBy(i) = {}
                  /\ ~reqs[i].appended /\ ~reqs[i].synth

\* One speak request was rejected at the first check and another at the re-check.
C5_Witness ==
    \E i, j \in DOMAIN reqs :
        /\ Rejected(i) /\ reqs[i].fetches = 1
        /\ Rejected(j) /\ reqs[j].fetches = 2 /\ EntriesBy(j) /= {}

----------------------------------------------------------------------------
(* Properties of the temporary audio routes, checked under SpecAudio *)

\* C7: an artifact that has been served is deleted, with its route, once
\* CleanupDelay has passed since that serving, and every request for it made
\* after that is answered 404.
C7_ServedArtifactExpires ==
    \A a \in audioLog :
        a.code = 200 =>
            /\ now >= a.at + CleanupDelay =>
                  ~FileExists(a.name) /\ a.name \notin Published
            /\ \A b \in audioLog :
                  (b.name = a.name /\ b.at >= a.at + CleanupDelay) => b.code = 404

----------------------------------------------------------------------------
(* Properties of the media stream, checked under SpecStream *)

\* C11: the transcript entries derived from the audio batches of one media
\* stream are in the order in which the batches arrived, whichever recognition
\* call completes first.
C11_BatchesInArrivalOrder ==
    \A s \in CallSids :
        Has(s) =>
            LET t == activeCalls[s].transcript
                Batch(k) == reqs[t[k].by]
            IN \A p, q \in 1..Len(t) :
                  (/\ p < q
                   /\ Batch(p).kind = "media" /\ Batch(q).kind = "media"
                   /\ Batch(p).arg = Batch(q).arg) => t[p].by[3] < t[q].by[3]

\* The texts of the transcription events published for batch i.
TranscriptionsOf(i) == {e.text : e \in {x \in emitted : x.type = "transcription" /\ x.by = i}}

\* A batch whose recognition returned a text that is not blank and whose
\* processing is over.
Recognized(i) ==
    /\ reqs[i].kind = "media" /\ reqs[i].pc = "done"
    /\ reqs[i].text /= <<>>

Streaming(c, s) ==
    /\ conns[c].callSid = s /\ conns[c].open
    /\ conns[c].state \in {"started", "saving"}

\* C20: the entry of a call exists exactly while a connection for that call has
\* received 'start' and has neither been stopped nor closed: the 'stop' or close
\* of one connection does not remove the entry of another that is still open.
C20_EntryWhileStreaming ==
    \A s \in CallSids :
        (activeMediaStreams[s] /= NoStream) <=> \E c \in DOMAIN conns : Streaming(c, s)

----------------------------------------------------------------------------
(* Properties of the transcript, checked under SpecTranscript *)

IsPrefix(a, b) == Len(a) <= Len(b) /\ SubSeq(b, 1, Len(a)) = a

\* C12: in every step of every handler the transcript of a session before the
\* step is a prefix of its transcript after the step: entries are only appended
\* at the end, none is removed, reordered or changed.
C12_TranscriptAppendOnly ==
    [][\A s \in CallSids :
          Has(s) => IsPrefix(activeCalls[s].transcript, activeCalls'[s].transcript)]_vars

\* A transcript holds an entry of the user followed or preceded by one of the caller.
C12_Witness ==
    \E s \in CallSids :
        /\ Has(s)
        /\ \E p, q \in 1..Len(activeCalls[s].transcript) :
              /\ activeCalls[s].transcript[p].isUser
              /\ ~activeCalls[s].transcript[q].isUser

----------------------------------------------------------------------------
(* The status callback in full, with the clock *)

\* Every status callback Twilio sends is delivered, terminal or not, while a
\* call is placed, answered, spoken on and ended by either side, and time passes.
NextStatus ==
    \/ CallSetup
    \/ \E m \in net : StatusCallback(m)
    \/ \E i \in DOMAIN reqs, ok \in BOOLEAN : SummaryReturns(i, ok)
    \/ \E i \in DOMAIN reqs, ok \in BOOLEAN : DbUpdateReturns(i, ok)
    \/ \E sid \in CallSids : EndCall(Owner, sid)
    \/ \E i \in DOMAIN reqs, ok \in BOOLEAN : EndUpdateReturns(i, ok)
    \/ \E sid \in CallSids : Transcribe(sid, <<"h", "i">>)
    \/ \E i \in DOMAIN reqs, ok \in BOOLEAN : TranscribeTtsReturns(i, ok)
    \/ Tick

SpecStatus == Init /\ [][NextStatus]_vars

----------------------------------------------------------------------------
(* The client's control requests *)

\* Speak, mute, DTMF and end-call requests with and without their body fields,
\* for calls in the store and for identifiers it does not hold, while a call is
\* placed and answered.  A speak request is followed here up to its validation.
NextControl ==
    \/ CallSetup
    \/ \E sid \in SidInputs, play \in BOOLEAN : ~Has(sid) /\ Speak(sid, play)
    \/ \E sid \in SidInputs : SpeakNoText(sid)
    \/ \E sid \in SidInputs, mute \in BOOLEAN : MuteCall(sid, mute)
    \/ \E i \in DOMAIN reqs, ok \in BOOLEAN : MuteUpdateReturns(i, ok)
    \/ \E sid \in SidInputs, digits \in BOOLEAN : SendDtmf(sid, digits)
    \/ \E i \in DOMAIN reqs, ok \in BOOLEAN : DtmfUpdateReturns(i, ok)
    \/ \E sid \in SidInputs : EndCall(Owner, sid)
    \/ \E i \in DOMAIN reqs, ok \in BOOLEAN : EndUpdateReturns(i, ok)
    \/ \E i \in DOMAIN reqs, ok \in BOOLEAN : DbUpdateReturns(i, ok)

SpecControl == Init /\ [][NextControl]_vars

----------------------------------------------------------------------------
(* The gather callback on its own *)

\* SpeechResult values of the gather callback: absent, not a string, and texts
\* with and without surrounding blanks and closing punctuation.
GatherInputs ==
    {NoSpeech, NonString, <<"h", "i">>, <<" ", "h", "i", " ">>, <<"h", " ", "o", "?">>,
     <<"o", "!">>, <<"h", ".">>, <<" ">>}

NextGather ==
    \/ CallSetup
    \/ \E sid \in CallSids, sr \in GatherInputs : Transcribe(sid, sr)
    \/ \E i \in DOMAIN reqs, ok \in BOOLEAN : TranscribeTtsReturns(i, ok)

SpecGather == Init /\ [][NextGather]_vars

----------------------------------------------------------------------------
(* Properties of POST /api/call/start, checked under Spec *)

\* Handler i takes the step that sends its response.
Responds(i) == i \in DOMAIN reqs' /\ reqs'[i].pc = "done"
               /\ (i \in DOMAIN reqs => reqs[i].pc /= "done")

\* C13: when a start-call request is answered 200, the store already holds the
\* session of the returned call identifier, with the caller as userId and
\* startTime set; and a session enters the store with status "ringing".
C13_SessionBeforeResponse ==
    [][/\ \A i \in DOMAIN reqs' :
             (reqs'[i].kind = "start" /\ Responds(i) /\ reqs'[i].code = 200) =>
                 /\ Has(reqs'[i].sid)
                 /\ activeCalls[reqs'[i].sid].userId = reqs'[i].user
                 /\ activeCalls[reqs'[i].sid].startTime \in 0..now
       /\ \A s \in CallSids :
             (~Has(s) /\ activeCalls'[s] /= NoCall) =>
                 /\ activeCalls'[s].status = "ringing"
                 /\ activeCalls'[s].startTime = now]_vars

\* A start-call request was answered 200 after the call had been answered.
C13_Witness ==
    \E i \in DOMAIN reqs :
        /\ reqs[i].kind = "start" /\ reqs[i].pc = "done" /\ reqs[i].code = 200
        /\ Has(reqs[i].sid) /\ live[reqs[i].sid] = "in-progress"

\* A start-call request that was answered with an error.
StartFailed(i) == reqs[i].kind = "start" /\ reqs[i].pc = "done" /\ reqs[i].code /= 200

\* C14: a start-call request that fails creates no session: the step that
\* answers it with an error leaves the store as it was, and every session in
\* the store belongs to a start-call request that has not failed.
C14_FailedStartStoresNothing ==
    /\ [](\A s \in CallSids :
             Has(s) => \E i \in DOMAIN reqs :
                          reqs[i].kind = "start" /\ reqs[i].sid = s /\ ~StartFailed(i))
    /\ [][\A i \in DOMAIN reqs' :
             (reqs'[i].kind = "start" /\ Responds(i) /\ reqs'[i].code /= 200) =>
                 activeCalls' = activeCalls]_vars

\* The call placement threw and the request was answered 500.
C14_Witness ==
    \E i \in DOMAIN reqs :
        /\ StartFailed(i) /\ reqs[i].code = 500 /\ twilioClient /\ openai
        /\ \A s \in CallSids : ~Has(s)

----------------------------------------------------------------------------
(* Call ending without a transcript, checked under Spec *)

\* Handler i ended a call whose transcript was absent or empty at that moment.
EndedEmpty(i) ==
    /\ reqs[i].kind \in {"status", "end"} /\ reqs[i].ended
    /\ reqs[i].input = <<>>
    /\ reqs[i].pc = "summ" \/ (reqs[i].row /= NoRow /\ reqs[i].row.transcript = <<>>)

\* C16: a call ending (terminal status callback or end-call request) that finds
\* the transcript absent or empty issues no summarization request, hands a null
\* summary to the database and publishes no summary other than null; a non-null
\* summary in the call's row was written by another ending, from its own request.
C16_NoSummaryWithoutTranscript ==
    \A i \in DOMAIN reqs :
        EndedEmpty(i) =>
            /\ \A k \in DOMAIN summaryCalls : summaryCalls[k].by /= i
            /\ reqs[i].pc /= "summ" /\ reqs[i].summary = Null
            /\ reqs[i].row.summary = Null
            /\ \A e \in emitted : e.by = i => e.summary \in {Null, Undefined}
            /\ LET row == callHistory[reqs[i].sid]
               IN (row /= NoRow /\ row.summary /= Null) =>
                      \E j \in DOMAIN reqs \ {i} :
                          /\ reqs[j].ended /\ reqs[j].input /= <<>>
                          /\ row.summary = Summary(reqs[j].input)

\* With the summarization adapter configured, an end-call request and a terminal
\* status callback have both ended a call without transcript, to completion.
C16_Witness ==
    /\ openai
    /\ \E i, j \in DOMAIN reqs :
          /\ reqs[i].kind = "end" /\ reqs[j].kind = "status"
          /\ EndedEmpty(i) /\ EndedEmpty(j)
          /\ reqs[i].pc = "done" /\ reqs[j].pc = "done"
          /\ callHistory[reqs[i].sid] /= NoRow
          /\ callHistory[reqs[i].sid].status = "ended"

----------------------------------------------------------------------------
(* Properties of the status callback and of finalization, checked under SpecStatus *)

\* C15: when the handler of a terminal status callback (completed, busy, failed,
\* no-answer, canceled) for a call in the store sends its response, the session
\* is "ended" with endTime set and the call-history row is marked "ended"; the
\* handler of a callback with any other CallStatus leaves the store as it was.
C15_TerminalCallbackEnds ==
    [][\A i \in DOMAIN reqs' :
          (reqs'[i].kind = "status" /\ Responds(i)) =>
              IF reqs'[i].arg \in TerminalStatuses
              THEN Has(reqs'[i].sid) =>
                       /\ activeCalls'[reqs'[i].sid].status = "ended"
                       /\ activeCalls'[reqs'[i].sid].endTime /= -1
                       /\ callHistory'[reqs'[i].sid] /= NoRow
                       /\ callHistory'[reqs'[i].sid].status = "ended"
              ELSE activeCalls' = activeCalls]_vars

\* C17: a session that has an endTime has endTime >= startTime, and a row
\* marked "ended" carries the whole seconds between the session's startTime and
\* the endTime of that same row: duration * 1000 <= endTime - startTime <
\* (duration + 1) * 1000.
C17_DurationInWholeSeconds ==
    \A s \in CallSids :
        /\ (Has(s) /\ activeCalls[s].endTime /= -1) =>
               activeCalls[s].endTime >= activeCalls[s].startTime
        /\ (callHistory[s] /= NoRow /\ callHistory[s].status = "ended") =>
               LET ms == callHistory[s].endTime - activeCalls[s].startTime
               IN /\ Has(s)
                  /\ callHistory[s].duration * 1000 <= ms
                  /\ ms < (callHistory[s].duration + 1) * 1000

\* A call started at one time and finalized at a later one: the row is marked
\* "ended" with a duration that is not zero.
C17_Witness ==
    \E s \in CallSids :
        /\ callHistory[s] /= NoRow /\ callHistory[s].status = "ended"
        /\ callHistory[s].duration > 0
        /\ activeCalls[s].endTime > callHistory[s].endTime

----------------------------------------------------------------------------
(* Properties of the gather callback, checked under SpecGather *)

\* The text the gather callback is to store for SpeechResult sr: the characters
\* from the first to the last non-blank one, the first upper-cased, then '.'
\* unless the last is '.', '?' or '!'.
ExpectedSpeech(sr) ==
    LET solid == {k \in 1..Len(sr) : sr[k] /= " "}
        lo == CHOOSE k \in solid : \A j \in solid : k <= j
        hi == CHOOSE k \in solid : \A j \in solid : k >= j
        core == [k \in 1..(hi - lo + 1) |-> IF k = 1 THEN Upper(sr[lo]) ELSE sr[lo + k - 1]]
    IN IF solid = {} THEN <<".">>
       ELSE IF sr[hi] \in {".", "?", "!"} THEN core ELSE core \o <<".">>

\* C18: the arrival of a gather callback with a non-empty SpeechResult for a
\* call in the store appends exactly one entry, isUser = false, with the
\* expected text, and publishes exactly one transcription event with that text;
\* the rest of the handler appends and publishes no further transcription.
C18_GatherAppendsFormatted ==
    [][\A i \in DOMAIN reqs' :
          reqs'[i].kind = "transcribe" =>
              LET sid == reqs'[i].sid
                  sr == reqs'[i].arg
                  entry == [text |-> ExpectedSpeech(sr), isUser |-> FALSE, by |-> i]
              IN IF i \notin DOMAIN reqs
                 THEN (sr /= NoSpeech /\ Has(sid)) =>
                          /\ activeCalls'[sid].transcript =
                                 Append(activeCalls[sid].transcript, entry)
                          /\ {e \in emitted' \ emitted : e.type = "transcription"} =
                                 {Event("transcription", sid, "", Undefined,
                                        ExpectedSpeech(sr), i)}
                 ELSE reqs'[i] /= reqs[i] =>
                          /\ activeCalls' = activeCalls
                          /\ {e \in emitted' \ emitted : e.type = "transcription"} = {}]_vars

\* C29: a media-stream batch with a non-blank recognition result publishes at
\* most one transcription event, whichever path its handler takes.
C29_AtMostOneTranscription ==
    \A i \in DOMAIN reqs :
        (reqs[i].kind = "media" /\ reqs[i].text /= <<>>) => reqs[i].emits <= 1

----------------------------------------------------------------------------
(* Properties of the initial webhook, checked under Spec *)

\* C24: the arrival of the initial webhook for a call stored as "ringing", with
\* both adapters configured, sets the session to "connected" and publishes the
\* call-status "connected" event before the greeting synthesis is issued; the
\* return of the synthesis, failed or not, changes no session and takes no
\* event back.
C24_WebhookConnects ==
    [][\A i \in DOMAIN reqs' :
          reqs'[i].kind = "webhook" =>
              LET sid == reqs'[i].sid
              IN IF i \notin DOMAIN reqs
                 THEN (twilioClient /\ openai /\ Has(sid)
                       /\ activeCalls[sid].status = "ringing") =>
                          /\ activeCalls'[sid].status = "connected"
                          /\ Event("call-status", sid, "connected", Undefined, <<>>, i)
                                 \in emitted' \ emitted
                 ELSE reqs'[i] /= reqs[i] =>
                          /\ activeCalls' = activeCalls
                          /\ emitted \subseteq emitted']_vars

\* The webhook found the call ringing, and its greeting synthesis failed: the
\* fallback instructions were sent and the session is "connected".
C24_Witness ==
    \E i \in DOMAIN reqs :
        /\ reqs[i].kind = "webhook" /\ reqs[i].pc = "done"
        /\ reqs[i].twiml = <<"say", "gather", "pause">>
        /\ Has(reqs[i].sid) /\ activeCalls[reqs[i].sid].status = "connected"
        /\ Event("call-status", reqs[i].sid, "connected", Undefined, <<>>, i) \in emitted

----------------------------------------------------------------------------
(* Call ending with a failed summarization, checked under Spec *)

\* Handler i ended a call with a non-empty transcript and its summarization
\* request threw.
SummaryFailed(i) ==
    /\ reqs[i].kind \in {"status", "end"} /\ reqs[i].ended
    /\ reqs[i].input /= <<>> /\ reqs[i].pc \in {"dbupd", "done"}
    /\ reqs[i].summary = Null

\* C25: when the handler of a call ending whose summarization request failed
\* sends its response, the session is "ended" with endTime set, the
\* call-history row is "ended" with the transcript and a null summary, and the
\* handler has published the "ended" call-status event.
C25_FinalizedWithoutSummary ==
    [][\A i \in DOMAIN reqs :
          (SummaryFailed(i) /\ Responds(i) /\ reqs'[i].code = 200) =>
              LET sid == reqs[i].sid
              IN /\ activeCalls'[sid].status = "ended"
                 /\ activeCalls'[sid].endTime /= -1
                 /\ callHistory'[sid] /= NoRow
                 /\ callHistory'[sid].status = "ended"
                 /\ callHistory'[sid].transcript /= <<>>
                 /\ callHistory'[sid].summary = Null
                 /\ \E e \in emitted' : e.by = i /\ e.type = "call-status"
                                        /\ e.status = "ended"]_vars

\* C30: the summary in a call-history row was generated from exactly the
\* transcript stored in that row.
C30_SummaryOfStoredTranscript ==
    \A s \in CallSids :
        (callHistory[s] /= NoRow /\ callHistory[s].status = "ended"
         /\ callHistory[s].summary /= Null) =>
            callHistory[s].summary = Summary(TranscriptText(callHistory[s].transcript))

----------------------------------------------------------------------------
(* Properties of the speak request, checked under SpecSpeak *)

\* C23: every speak request answered 200 has updated the live call with
\* instructions that play the audio synthesized for it, then gather, then
\* pause, whether or not the request passed playOnCallOnly.
C23_SpeakPlaysOnCall ==
    \A i \in DOMAIN reqs :
        (reqs[i].kind = "speak" /\ reqs[i].pc = "done" /\ reqs[i].code = 200) =>
            /\ reqs[i].updated
            /\ reqs[i].twiml = <<"play", "gather", "pause">>

----------------------------------------------------------------------------
(* Properties of the control requests, checked under SpecControl *)

ControlKinds == {"speak", "mute", "end", "dtmf"}

\* C22: with both adapters configured, the arrival of a speak, mute, end or
\* DTMF request without callSid (or without text, or digits) is answered 400 at
\* once, and one whose callSid is not in the store 404 at once; that step
\* changes no session, issues no adapter call and sends nothing to the
\* telephony network.
C22_RejectedOnArrival ==
    [][\A i \in DOMAIN reqs' \ DOMAIN reqs :
          (reqs'[i].kind \in ControlKinds /\ twilioClient /\ openai) =>
              LET r == reqs'[i]
                  lacking == r.sid = NoSid \/ r.missing
              IN /\ lacking => (r.pc = "done" /\ r.code = 400)
                 /\ (~lacking /\ ~Has(r.sid)) => (r.pc = "done" /\ r.code = 404)
                 /\ (lacking \/ ~Has(r.sid)) =>
                        /\ activeCalls' = activeCalls
                        /\ summaryCalls' = summaryCalls
                        /\ live' = live /\ net' = net /\ files' = files
                        /\ r.fetches = 0 /\ ~r.updated /\ ~r.synth]_vars

\* With a call in the store and both adapters configured, one request was
\* answered 400 and another 404.
C22_Witness ==
    /\ twilioClient /\ openai
    /\ \E s \in CallSids : Has(s)
    /\ \E i, j \in DOMAIN reqs :
          /\ reqs[i].kind = "dtmf" /\ reqs[i].missing /\ reqs[i].code = 400
          /\ reqs[j].kind = "mute" /\ reqs[j].sid = UnknownSid /\ reqs[j].code = 404

\* C26: when the Telephony Adapter call of a mute or end-call request throws,
\* the request is answered 500 with the message of the adapter's error, and
\* neither that step nor the arrival of the request changes any session.
C26_TelephonyFailureLeavesSession ==
    [][/\ \A i \in DOMAIN reqs :
             (/\ reqs[i].kind \in {"mute", "end"} /\ reqs[i].pc = "upd"
              /\ reqs'[i] /= reqs[i] /\ faults' /= faults) =>
                 /\ reqs'[i].pc = "done" /\ reqs'[i].code = 500
                 /\ reqs'[i].error = TelephonyError.message
                 /\ activeCalls' = activeCalls
       /\ \A i \in DOMAIN reqs' \ DOMAIN reqs :
             reqs'[i].kind \in {"mute", "end"} => activeCalls' = activeCalls]_vars

\* The update of a mute request for an answered call threw: 500, and the
\* session is not muted.
C26_Witness ==
    \E i \in DOMAIN reqs :
        /\ reqs[i].kind = "mute" /\ reqs[i].arg /\ reqs[i].code = 500
        /\ reqs[i].error = TelephonyError.message
        /\ Has(reqs[i].sid) /\ ~activeCalls[reqs[i].sid].muted
        /\ activeCalls[reqs[i].sid].status = "ringing"

----------------------------------------------------------------------------
(* Properties of the published status, checked under SpecStatus *)

\* C27: every call-status event published for a call in the store carries the
\* status the store holds for that call when the event is published.
C27_EventCarriesStoredStatus ==
    [][\A e \in emitted' \ emitted :
          (e.type = "call-status" /\ Has(e.callSid)) =>
              e.status = activeCalls'[e.callSid].status]_vars

----------------------------------------------------------------------------
(* Telephony callbacks and the registration of the session, checked under Spec *)

\* No handler is running and no terminal status callback or webhook is on its way.
Quiet ==
    /\ \A i \in DOMAIN reqs : reqs[i].pc = "done"
    /\ \A m \in net : m.kind = "status" /\ m.status \notin TerminalStatuses

\* C28: once the server is quiet, a call in the store whose terminal status
\* callback was delivered has been ended, and one whose initial webhook was
\* answered with instructions is no longer "ringing", whenever the callback
\* came in.
C28_NoCallbackLost ==
    Quiet =>
        \A i \in DOMAIN reqs :
            Has(reqs[i].sid) =>
                /\ (reqs[i].kind = "status" /\ reqs[i].arg \in TerminalStatuses) =>
                       activeCalls[reqs[i].sid].endTime /= -1
                /\ (reqs[i].kind = "webhook" /\ reqs[i].code = 200) =>
                       activeCalls[reqs[i].sid].status /= "ringing"

\* C21: no two audio artifacts are written to the same path: the routes
\* registered for the artifacts of different handlers have different paths.
C21_ArtifactPathsDistinct ==
    \A p, q \in 1..Len(routerStack) :
        (/\ p < q
         /\ routerStack[p].kind = "get" /\ routerStack[q].kind = "get"
         /\ routerStack[p].by /= routerStack[q].by) =>
            routerStack[p].name /= routerStack[q].name

====
